---- MODULE Spec2Model ----
(***************************************************************************)
(* Model of plugins/inputs/fems/fems.go: the FEMS websocket input.         *)
(*                                                                         *)
(* Two execution contexts share the Fems struct without synchronisation:   *)
(* the goroutine spawned by Start (connect, thread "bg") and the caller of *)
(* Start and Stop (thread "caller").  Every access to the shared fields   *)
(* f.conn and f.is_stopping is its own step, so every interleaving of the  *)
(* two is a behaviour of the model.  A method called through a nil         *)
(* *websocket.Conn dereferences nil and panics, which ends the process     *)
(* ("crashed").                                                            *)
(*                                                                         *)
(* Sockets are numbered 1..MaxDials in the order Dial returns them; the    *)
(* handle 0 is the nil pointer.  Request ids are the ordinal of the        *)
(* uuid.New() call that made them (fresh, never reused); 0 is the empty    *)
(* string.                                                                 *)
(***************************************************************************)
EXTENDS Integers, Sequences, FiniteSets, Bags

\* Number of sessions websocket.DefaultDialer.Dial can open in one run.
MaxDials == 2

Channels == {"ch1", "ch2"}

Threads == {"bg", "caller"}

NilConn == 0

Sockets == 1..MaxDials

VARIABLES
  pc,           \* position of each thread
  first,        \* connect: local `first`
  ws,           \* connect: local `ws`, the socket of the current attempt
  conn,         \* f.conn
  is_stopping,  \* f.is_stopping
  sock,         \* per socket: "unopened", "open", "closed"
  h,            \* per thread: the handle loaded from f.conn by the current call
  uuids,        \* number of uuid.New() calls made so far
  req,          \* the request envelope of the current exchange
  rx,           \* the result of the ReadMessage call the last bg step completed
  ret,          \* the value returned by the step function the last bg step completed
  emit,         \* the AddFields calls made by the last bg step
  log,          \* per thread: the log entries written by its last step
  closeLogs,    \* per socket: number of "connection closed" entries written for it
  hist,         \* per socket: what happened on that session
  stopAt,       \* where the background loop was when Stop() set the flag
  stopClosedRecv, \* Stop() closed the socket while the loop was blocked receiving on it
  wait,         \* connect: local `wait`, in seconds (0 before the first retry)
  cfg           \* the configured fields URL, Password, Channels and what Init() returned

vars == <<pc, first, ws, conn, is_stopping, sock, h, uuids, req, rx, ret, emit,
          log, closeLogs, hist, stopAt, stopClosedRecv, wait, cfg>>

-----------------------------------------------------------------------------
\* Log entries

Entry(lvl, msg) == [lvl |-> lvl, msg |-> msg, arg |-> ""]

EntryArg(lvl, msg, arg) == [lvl |-> lvl, msg |-> msg, arg |-> arg]

One(e) == SetToBag({e})

NoLog == EmptyBag

ConnectionClosed == Entry("info", "connection closed")

-----------------------------------------------------------------------------
\* Wire messages and their decoding (encoding/json into the Go structs)

AbsentId == -1

EmptyId == 0

ErrFields == {"absent", "null", "object"}

JsonValues == {"null", "0", "false", "\"\"", "42"}

NoReq == [id |-> EmptyId, inner |-> EmptyId]

NoRx == [kind |-> "none", json |-> FALSE, id |-> AbsentId, error |-> "absent",
         hasParams |-> FALSE, params |-> <<>>]

RxErr == [NoRx EXCEPT !.kind = "err"]

\* A text frame that is not JSON, or whose JSON does not fit the target struct.
BadJson == [NoRx EXCEPT !.kind = "msg"]

ResponseMsg(id, e) == [NoRx EXCEPT !.kind = "msg", !.json = TRUE, !.id = id, !.error = e]

PushMsg(p) == [NoRx EXCEPT !.kind = "msg", !.json = TRUE, !.hasParams = TRUE, !.params = p]

NoParamsMsg == [NoRx EXCEPT !.kind = "msg", !.json = TRUE]

ParamMaps == UNION {[K -> JsonValues] : K \in SUBSET Channels}

\* What the peer can put on the wire.
ResponseMsgs == {ResponseMsg(i, e) : i \in AbsentId..uuids, e \in ErrFields}

PushMsgs == {PushMsg(p) : p \in ParamMaps} \cup {NoParamsMsg}

\* json.Unmarshal of one value into `any`: JSON null becomes nil, everything
\* else a non-nil Go value.
JsonToGo(v) ==
  CASE v = "null" -> "nil"
    [] v = "0" -> "float64(0)"
    [] v = "false" -> "bool(false)"
    [] v = "\"\"" -> "string()"
    [] v = "42" -> "float64(42)"

\* json.Unmarshal into RpcResponse: a missing id leaves "", a missing or null
\* error leaves the nil pointer.
DecodeRpcResponse(m) ==
  [Id |-> IF m.id = AbsentId THEN EmptyId ELSE m.id,
   Error |-> IF m.error = "object" THEN "set" ELSE "nil"]

\* json.Unmarshal into DataUpdateEvent, then .EdgRpcParams.Payload.Params:
\* a missing params object leaves the nil map, which ranges as the empty map.
DecodePushParams(m) ==
  IF m.hasParams THEN [k \in DOMAIN m.params |-> JsonToGo(m.params[k])] ELSE <<>>

-----------------------------------------------------------------------------
\* The step functions, as functions of what the transport delivered

Result(r, l) == [ret |-> r, log |-> l]

\* try_login without the comparison of the response id with the request id.
try_login_NoIdCheck(sendErr, m, id) ==
  IF sendErr THEN
    Result(FALSE, One(Entry("error", "write:")))
  ELSE IF m.kind = "err" THEN
    Result(FALSE, One(Entry("info", "read login response:")))
  ELSE IF ~m.json THEN
    Result(FALSE, One(Entry("info", "could not parse login response:"))
                  (+) One(Entry("info", "data was:")))
  ELSE IF DecodeRpcResponse(m).Error # "nil" THEN
    Result(FALSE, One(Entry("trace", "got login response"))
                  (+) One(Entry("error", "Login failed: ")))
  ELSE
    Result(TRUE, One(Entry("trace", "got login response"))
                 (+) One(Entry("info", "login succeeded")))

\* try_login: the outcome of one login exchange.  sendErr: WriteJSON failed;
\* m: what ReadMessage returned; id: loginReq.Id.
try_login(sendErr, m, id) ==
  IF sendErr THEN
    Result(FALSE, One(Entry("error", "write:")))
  ELSE IF m.kind = "err" THEN
    Result(FALSE, One(Entry("info", "read login response:")))
  ELSE IF ~m.json THEN
    Result(FALSE, One(Entry("info", "could not parse login response:"))
                  (+) One(Entry("info", "data was:")))
  ELSE IF DecodeRpcResponse(m).Id # id THEN
    Result(FALSE, One(Entry("error", "unexpected response id: ")))
  ELSE IF DecodeRpcResponse(m).Error # "nil" THEN
    Result(FALSE, One(Entry("trace", "got login response"))
                  (+) One(Entry("error", "Login failed: ")))
  ELSE
    Result(TRUE, One(Entry("trace", "got login response"))
                 (+) One(Entry("info", "login succeeded")))

\* try_subscribe_channels comparing the response id with the id of the inner
\* subscribeChannels request instead of the outer edgeRpc envelope.
try_subscribe_channels_InnerId(sendErr, m, r) ==
  IF sendErr THEN
    Result(FALSE, One(Entry("error", "failed to send subscribe channels:")))
  ELSE IF m.kind = "err" THEN
    Result(FALSE, One(Entry("info", "read subscribe response:")))
  ELSE IF ~m.json THEN
    Result(FALSE, One(Entry("info", "could not parse subscribe response:"))
                  (+) One(Entry("info", "data was:")))
  ELSE IF DecodeRpcResponse(m).Id # r.inner THEN
    Result(FALSE, One(Entry("error", "unexpected response id. sent: ")))
  ELSE IF DecodeRpcResponse(m).Error # "nil" THEN
    Result(FALSE, One(Entry("error", "channel subscribe failed: ")))
  ELSE
    Result(TRUE, NoLog)

\* try_subscribe_channels: the outcome of one subscribe exchange.  r: the
\* envelope get_subscribe_channels_request built (r.id the edgeRpc id, r.inner
\* the id of the subscribeChannels payload).
try_subscribe_channels(sendErr, m, r) ==
  IF sendErr THEN
    Result(FALSE, One(Entry("error", "failed to send subscribe channels:")))
  ELSE IF m.kind = "err" THEN
    Result(FALSE, One(Entry("info", "read subscribe response:")))
  ELSE IF ~m.json THEN
    Result(FALSE, One(Entry("info", "could not parse subscribe response:"))
                  (+) One(Entry("info", "data was:")))
  ELSE IF DecodeRpcResponse(m).Id # r.id THEN
    Result(FALSE, One(Entry("error", "unexpected response id. sent: ")))
  ELSE IF DecodeRpcResponse(m).Error # "nil" THEN
    Result(FALSE, One(Entry("error", "channel subscribe failed: ")))
  ELSE
    Result(TRUE, NoLog)

\* The range loop deleting every falsy value (nil, 0, false, "") instead of
\* nil alone.
DeleteNil_Falsy(data) ==
  [k \in {x \in DOMAIN data :
            data[x] \notin {"nil", "float64(0)", "bool(false)", "string()"}} |-> data[k]]

\* The range loop of try_handel_msgs_forever: delete every nil-valued key.
DeleteNil(data) == [k \in {x \in DOMAIN data : data[x] # "nil"} |-> data[k]]

NilWarnings(data) ==
  SetToBag({EntryArg("warn", "no data for channel", k) :
              k \in {x \in DOMAIN data : data[x] = "nil"}})

AddFields(name, fields) == [name |-> name, fields |-> fields]

\* The loop body without the len(data) == 0 check: the batch is emitted even
\* when nothing is left in it.
HandleMsg_NoEmptyCheck(m) ==
  IF ~m.json THEN
    [emit |-> <<>>,
     log |-> One(Entry("info", "could not parse received data:"))
             (+) One(Entry("info", "data was:"))]
  ELSE
    [emit |-> <<AddFields("fems", DeleteNil(DecodePushParams(m)))>>,
     log |-> One(Entry("trace", "FEMS RX: ")) (+) NilWarnings(DecodePushParams(m))]

\* One iteration of try_handel_msgs_forever on a received message m:
\* the AddFields calls made and the entries logged.
HandleMsg(m) ==
  IF ~m.json THEN
    [emit |-> <<>>,
     log |-> One(Entry("info", "could not parse received data:"))
             (+) One(Entry("info", "data was:"))]
  ELSE
    LET data == DecodePushParams(m)
        kept == DeleteNil(data)
        l == One(Entry("trace", "FEMS RX: ")) (+) NilWarnings(data)
    IN IF DOMAIN kept = {} THEN
         [emit |-> <<>>, log |-> l (+) One(Entry("warn", "No measurement data!!!"))]
       ELSE
         [emit |-> <<AddFields("fems", kept)>>, log |-> l]

\* The receive failure branch logging whether or not the flag is set.
ReadErrorLog_Always(stopping) == One(Entry("info", "read error: "))

\* The receive failure branch of try_handel_msgs_forever.
ReadErrorLog(stopping) ==
  IF stopping = FALSE THEN One(Entry("info", "read error: ")) ELSE NoLog

-----------------------------------------------------------------------------
\* State

NoHist == [loginId |-> EmptyId, loginSent |-> FALSE, login |-> "none",
           subSent |-> FALSE, sub |-> "none", stream |-> FALSE,
           loginTx |-> 0, loginRx |-> 0, subTx |-> 0, subRx |-> 0,
           bad |-> FALSE, afterStop |-> FALSE]

NoRet == [fn |-> "", val |-> FALSE]

Returned(fn, val) == [fn |-> fn, val |-> val]

RecvWaits == {"login_wait", "sub_wait", "st_wait"}

-----------------------------------------------------------------------------
\* Configuration and Fems.Init

URLs == {"", "fems:80", "10.0.0.5:8085", "localhost:8085"}

Passwords == {"", "owner", "secret"}

ChannelLists == {<<>>, <<"ch1">>, <<"ch2">>, <<"ch1", "ch2">>, <<"ch2", "ch1">>}

\* The struct as the configuration file filled it, Init() not yet called.
Configured(u, p, c) ==
  [given |-> [URL |-> u, Password |-> p, Channels |-> c],
   URL |-> u, Password |-> p, Channels |-> c, err |-> "not called"]

Configurations == {Configured(u, p, c) : u \in URLs, p \in Passwords, c \in ChannelLists}

\* Init without the check of the channel list.
Fems_Init_NoChannelCheck(f) ==
  [f EXCEPT !.Password = IF f.Password = "" THEN "owner" ELSE f.Password,
            !.err = IF f.URL = "" THEN "FEMS URL missing" ELSE "nil"]

\* Fems.Init: the fields it leaves and the error it returns ("nil": none).
Fems_Init(f) ==
  [f EXCEPT !.Password = IF f.Password = "" THEN "owner" ELSE f.Password,
            !.err = IF f.URL = "" THEN "FEMS URL missing"
                    ELSE IF Len(f.Channels) = 0 THEN "No FEMS channels configured"
                    ELSE "nil"]

\* The struct the plugin runs with: Init() has returned nil.
Running == Fems_Init(Configured("fems:80", "", <<"ch1", "ch2">>))

\* The struct after construction, but for the configured fields.
Constructed ==
  /\ pc = [t \in Threads |-> IF t = "bg" THEN "idle" ELSE "new"]
  /\ first = TRUE
  /\ ws = NilConn
  /\ conn = NilConn
  /\ is_stopping = FALSE
  /\ sock = [s \in Sockets |-> "unopened"]
  /\ h = [t \in Threads |-> NilConn]
  /\ uuids = 0
  /\ req = NoReq
  /\ rx = NoRx
  /\ ret = NoRet
  /\ emit = <<>>
  /\ log = [t \in Threads |-> NoLog]
  /\ closeLogs = [s \in Sockets |-> 0]
  /\ hist = [s \in Sockets |-> NoHist]
  /\ stopAt = "none"
  /\ stopClosedRecv = FALSE
  /\ wait = 0

\* Start is called on a plugin whose Init() returned nil.
Init == Constructed /\ cfg = Running

\* Init() is called once on a freshly configured struct.
ConfigInit == Constructed /\ cfg \in Configurations

InitCall ==
  /\ cfg.err = "not called"
  /\ cfg' = Fems_Init(cfg)
  /\ UNCHANGED <<pc, first, ws, conn, is_stopping, sock, h, uuids, req, rx, ret,
                 emit, log, closeLogs, hist, stopAt, stopClosedRecv, wait>>

ConfigSpec == ConfigInit /\ [][InitCall]_vars

\* A panic in either goroutine ends the process.
Alive == \A t \in Threads : pc[t] # "crashed"

At(t, where) == Alive /\ pc[t] = where

Goto(t, where) == pc' = [pc EXCEPT ![t] = where]

\* What one step of the background loop received, returned, emitted and logged.
BgOut(m, r, e, l) ==
  /\ rx' = m
  /\ ret' = r
  /\ emit' = e
  /\ log' = [log EXCEPT !["bg"] = l]

\* f.conn.Method(...) with f.conn == nil.
NilDeref(t) ==
  /\ Goto(t, "crashed")
  /\ UNCHANGED <<first, ws, conn, is_stopping, sock, h, closeLogs, hist, stopAt,
                 stopClosedRecv>>

-----------------------------------------------------------------------------
\* Start, Stop

Start ==
  /\ At("caller", "new")
  /\ pc' = [pc EXCEPT !["caller"] = "started", !["bg"] = "top"]
  /\ first' = TRUE
  /\ log' = [log EXCEPT !["caller"] = One(Entry("info", "Start"))]
  /\ UNCHANGED <<ws, conn, is_stopping, sock, h, uuids, req, rx, ret, emit,
                 closeLogs, hist, stopAt, stopClosedRecv>>
  /\ UNCHANGED <<wait, cfg>>

\* Stop up to its call of cleanup.
Stop ==
  /\ At("caller", "started")
  /\ is_stopping' = TRUE
  /\ stopAt' = pc["bg"]
  /\ Goto("caller", "cl_check")
  /\ log' = [log EXCEPT !["caller"] = One(Entry("info", "Stop"))]
  /\ UNCHANGED <<first, ws, conn, sock, h, uuids, req, rx, ret, emit,
                 closeLogs, hist, stopClosedRecv>>
  /\ UNCHANGED <<wait, cfg>>

\* Gather forwarding a record to the accumulator.
Gather_Emits ==
  /\ At("caller", "started")
  /\ log' = [log EXCEPT !["caller"] = NoLog]
  /\ emit' = <<AddFields("fems", [k \in Channels |-> "float64(0)"])>>
  /\ UNCHANGED <<pc, first, ws, conn, is_stopping, sock, h, uuids, req, rx, ret,
                 closeLogs, hist, stopAt, stopClosedRecv, wait, cfg>>

\* Gather, called by the agent between Start and Stop: return nil.  It uses
\* neither acc nor f and logs nothing.
Gather ==
  /\ At("caller", "started")
  /\ log' = [log EXCEPT !["caller"] = NoLog]
  /\ UNCHANGED <<pc, first, ws, conn, is_stopping, sock, h, uuids, req, rx, ret,
                 emit, closeLogs, hist, stopAt, stopClosedRecv, wait, cfg>>

-----------------------------------------------------------------------------
\* cleanup, called by connect (thread "bg") and by Stop (thread "caller")

CleanupReturn(t) == IF t = "bg" THEN "flag" ELSE "stopped"

SetLog(t, l) ==
  /\ log' = [log EXCEPT ![t] = l]
  /\ IF t = "bg" THEN rx' = NoRx /\ ret' = NoRet /\ emit' = <<>>
     ELSE UNCHANGED <<rx, ret, emit>>

\* if f.conn == nil { return }
CleanupCheck(t) ==
  /\ At(t, "cl_check")
  /\ IF conn = NilConn
       THEN Goto(t, CleanupReturn(t)) /\ UNCHANGED h
       ELSE Goto(t, "cl_close") /\ h' = [h EXCEPT ![t] = conn]
  /\ SetLog(t, NoLog)
  /\ UNCHANGED <<first, ws, conn, is_stopping, sock, uuids, req,
                 closeLogs, hist, stopAt, stopClosedRecv>>
  /\ UNCHANGED <<wait, cfg>>

\* The handles f.conn.Close() can be called through: the value the nil check
\* loaded (the build reuses the load) or the value of f.conn now (the build
\* loads the field again).
CloseHandles(t) == {h[t], conn}

\* cleanup without the call of Close: the handle is dropped, the socket stays.
CleanupClose_LeaveOpen(t) ==
  /\ At(t, "cl_close")
  /\ h' = [h EXCEPT ![t] = IF h[t] = NilConn THEN conn ELSE h[t]]
  /\ Goto(t, "cl_clear")
  /\ SetLog(t, NoLog)
  /\ UNCHANGED <<first, ws, conn, is_stopping, sock, uuids, req, closeLogs,
                 hist, stopAt, stopClosedRecv, wait, cfg>>

\* f.conn.Close()
CleanupClose(t) ==
  /\ At(t, "cl_close")
  /\ \E c \in CloseHandles(t) :
       IF c = NilConn
         THEN NilDeref(t)
         ELSE /\ sock' = [sock EXCEPT ![c] = "closed"]
              /\ h' = [h EXCEPT ![t] = c]
              /\ Goto(t, "cl_clear")
              /\ stopClosedRecv' =
                   (stopClosedRecv \/ (t = "caller" /\ pc["bg"] \in RecvWaits
                                       /\ h["bg"] = c /\ sock[c] = "open"))
              /\ UNCHANGED <<first, ws, conn, is_stopping, closeLogs, hist, stopAt>>
  /\ SetLog(t, NoLog)
  /\ UNCHANGED <<uuids, req>>
  /\ UNCHANGED <<wait, cfg>>

\* f.conn = nil; f.Log.Info("connection closed")
CleanupClear(t) ==
  /\ At(t, "cl_clear")
  /\ conn' = NilConn
  /\ closeLogs' = [closeLogs EXCEPT ![h[t]] = @ + 1]
  /\ h' = [h EXCEPT ![t] = NilConn]
  /\ Goto(t, CleanupReturn(t))
  /\ SetLog(t, One(ConnectionClosed))
  /\ UNCHANGED <<first, ws, is_stopping, sock, uuids, req, hist, stopAt,
                 stopClosedRecv>>
  /\ UNCHANGED <<wait, cfg>>

-----------------------------------------------------------------------------
\* connect: the supervisor loop

Connecting == One(Entry("info", "Connecting to "))

\* The loop head without the call of cleanup on a later iteration.
LoopTop_NoCleanup ==
  /\ At("bg", "top")
  /\ IF first
       THEN /\ first' = FALSE
            /\ Goto("bg", "dial")
            /\ BgOut(NoRx, NoRet, <<>>, Connecting)
       ELSE /\ Goto("bg", "flag")
            /\ BgOut(NoRx, NoRet, <<>>, NoLog)
            /\ UNCHANGED first
  /\ UNCHANGED <<ws, conn, is_stopping, sock, h, uuids, req, closeLogs, hist,
                 stopAt, stopClosedRecv>>
  /\ UNCHANGED <<wait, cfg>>

\* The head of the for loop: the first iteration goes to Dial, every later
\* one calls cleanup first.
LoopTop ==
  /\ At("bg", "top")
  /\ IF first
       THEN /\ first' = FALSE
            /\ Goto("bg", "dial")
            /\ BgOut(NoRx, NoRet, <<>>, Connecting)
       ELSE /\ Goto("bg", "cl_check")
            /\ BgOut(NoRx, NoRet, <<>>, NoLog)
            /\ UNCHANGED first
  /\ UNCHANGED <<ws, conn, is_stopping, sock, h, uuids, req, closeLogs, hist,
                 stopAt, stopClosedRecv>>
  /\ UNCHANGED <<wait, cfg>>

\* wait := 10 * time.Second
BackoffSeconds == 10

\* The flag check with a wait that grows with every retry.
CheckStopping_Growing ==
  /\ At("bg", "flag")
  /\ IF is_stopping
       THEN Goto("bg", "done") /\ BgOut(NoRx, NoRet, <<>>, NoLog)
       ELSE /\ Goto("bg", "sleep")
            /\ BgOut(NoRx, NoRet, <<>>,
                     One(Entry("warn", "Connection failure reconnecting in ")))
  /\ wait' = IF is_stopping THEN wait ELSE wait + BackoffSeconds
  /\ UNCHANGED <<first, ws, conn, is_stopping, sock, h, uuids, req, closeLogs,
                 hist, stopAt, stopClosedRecv, cfg>>

\* The flag check inverted: the loop returns when the flag is not set.
CheckStopping_Inverted ==
  /\ At("bg", "flag")
  /\ IF ~is_stopping
       THEN Goto("bg", "done") /\ BgOut(NoRx, NoRet, <<>>, NoLog)
       ELSE /\ Goto("bg", "sleep")
            /\ BgOut(NoRx, NoRet, <<>>,
                     One(Entry("warn", "Connection failure reconnecting in ")))
  /\ wait' = IF ~is_stopping THEN wait ELSE BackoffSeconds
  /\ UNCHANGED <<first, ws, conn, is_stopping, sock, h, uuids, req, closeLogs,
                 hist, stopAt, stopClosedRecv, cfg>>

\* if f.is_stopping { return }; wait := 10 * time.Second; f.Log.Warn(...)
CheckStopping ==
  /\ At("bg", "flag")
  /\ IF is_stopping
       THEN Goto("bg", "done") /\ BgOut(NoRx, NoRet, <<>>, NoLog)
       ELSE /\ Goto("bg", "sleep")
            /\ BgOut(NoRx, NoRet, <<>>,
                     One(Entry("warn", "Connection failure reconnecting in ")))
  /\ wait' = IF is_stopping THEN wait ELSE BackoffSeconds
  /\ UNCHANGED <<first, ws, conn, is_stopping, sock, h, uuids, req, closeLogs,
                 hist, stopAt, stopClosedRecv, cfg>>

\* time.Sleep(wait) returns; first = false; the loop goes on to Dial.
Sleep ==
  /\ At("bg", "sleep")
  /\ first' = FALSE
  /\ Goto("bg", "dial")
  /\ BgOut(NoRx, NoRet, <<>>, Connecting)
  /\ UNCHANGED <<ws, conn, is_stopping, sock, h, uuids, req, closeLogs, hist,
                 stopAt, stopClosedRecv>>
  /\ UNCHANGED <<wait, cfg>>

Unopened == {s \in Sockets : sock[s] = "unopened"}

\* websocket.DefaultDialer.Dial returns an error: continue.
DialFail ==
  /\ At("bg", "dial")
  /\ Goto("bg", "top")
  /\ BgOut(NoRx, Returned("Dial", FALSE), <<>>, One(Entry("error", "dial:")))
  /\ UNCHANGED <<first, ws, conn, is_stopping, sock, h, uuids, req, closeLogs,
                 hist, stopAt, stopClosedRecv>>
  /\ UNCHANGED <<wait, cfg>>

\* websocket.DefaultDialer.Dial returns a new open socket in ws.
DialOk ==
  /\ At("bg", "dial")
  /\ Unopened # {}
  /\ LET s == CHOOSE x \in Unopened : \A y \in Unopened : x <= y
     IN /\ sock' = [sock EXCEPT ![s] = "open"]
        /\ ws' = s
        /\ hist' = [hist EXCEPT ![s].afterStop = (pc["caller"] = "stopped")]
  /\ Goto("bg", "store")
  /\ BgOut(NoRx, Returned("Dial", TRUE), <<>>, NoLog)
  /\ UNCHANGED <<first, conn, is_stopping, h, uuids, req, closeLogs,
                 stopAt, stopClosedRecv>>
  /\ UNCHANGED <<wait, cfg>>

\* f.conn = ws
StoreConn ==
  /\ At("bg", "store")
  /\ conn' = ws
  /\ Goto("bg", "login_send")
  /\ BgOut(NoRx, NoRet, <<>>, NoLog)
  /\ UNCHANGED <<first, ws, is_stopping, sock, h, uuids, req, closeLogs, hist,
                 stopAt, stopClosedRecv>>
  /\ UNCHANGED <<wait, cfg>>

\* The outcomes of WriteJSON on socket c: an error, or nil if c is open.
SendErrs(c) == IF sock[c] = "open" THEN {FALSE, TRUE} ELSE {TRUE}

\* What a ReadMessage blocked on socket c can return, given the messages the
\* peer may send: an error, or a message if c is open.
Receivable(c, msgs) == IF sock[c] = "open" THEN msgs \cup {RxErr} ELSE {RxErr}

\* A push event and a frame that is not JSON, as they may arrive during an exchange.
StrayMsgs == {BadJson, PushMsg([k \in Channels |-> "42"])}

\* The loop without the `continue` after a step that returned false.
AfterStep_NoContinue(ok, next) == Goto("bg", next)

\* The loop giving up (returning) when a step returned false.
AfterStep_ReturnOnFailure(ok, next) == Goto("bg", IF ok THEN next ELSE "done")

\* A step function returned false: continue.  It returned true: go on.
AfterStep(ok, next) == Goto("bg", IF ok THEN next ELSE "top")

\* f.conn.ReadMessage() is called: the load of f.conn, then the read blocks.
BeginRecv(at, blocked) ==
  /\ At("bg", at)
  /\ IF conn = NilConn
       THEN NilDeref("bg")
       ELSE /\ h' = [h EXCEPT !["bg"] = conn]
            /\ Goto("bg", blocked)
            /\ UNCHANGED <<first, ws, conn, is_stopping, sock, closeLogs, hist,
                           stopAt, stopClosedRecv>>
  /\ BgOut(NoRx, NoRet, <<>>, NoLog)
  /\ UNCHANGED <<uuids, req>>
  /\ UNCHANGED <<wait, cfg>>

-----------------------------------------------------------------------------
\* Request envelopes

\* getRequest: the id of the envelope built when n uuids have been drawn.
getRequest(n) == n + 1

\* get_subscribe_channels_request: edgeRpc is built first, then the
\* subscribeChannels request it carries as payload.
get_subscribe_channels_request(n) ==
  [id |-> getRequest(n), inner |-> getRequest(n + 1)]

-----------------------------------------------------------------------------
\* try_login

LoginSend ==
  /\ At("bg", "login_send")
  /\ uuids' = uuids + 1
  /\ req' = [id |-> getRequest(uuids), inner |-> EmptyId]
  /\ IF conn = NilConn
       THEN /\ NilDeref("bg")
            /\ BgOut(NoRx, NoRet, <<>>, One(Entry("trace", "sending login request")))
       ELSE \E e \in SendErrs(conn) :
              LET res == try_login(e, NoRx, getRequest(uuids))
              IN /\ IF e
                      THEN /\ AfterStep(res.ret, "sub_send")
                           /\ hist' = [hist EXCEPT ![conn].loginId = getRequest(uuids),
                                                    ![conn].loginTx = @ + 1,
                                                    ![conn].login =
                                                      IF res.ret THEN "true" ELSE "false"]
                           /\ BgOut(NoRx, Returned("try_login", res.ret), <<>>,
                                    One(Entry("trace", "sending login request"))
                                    (+) res.log)
                      ELSE /\ Goto("bg", "login_recv")
                           /\ hist' = [hist EXCEPT ![conn].loginId = getRequest(uuids),
                                                    ![conn].loginTx = @ + 1,
                                                    ![conn].loginSent = TRUE]
                           /\ BgOut(NoRx, NoRet, <<>>,
                                    One(Entry("trace", "sending login request")))
                 /\ UNCHANGED <<first, ws, conn, is_stopping, sock, h, closeLogs,
                                stopAt, stopClosedRecv>>
  /\ UNCHANGED <<wait, cfg>>

LoginRecv == BeginRecv("login_recv", "login_wait")

\* try_login reading on until the message with its id arrives: a message
\* that is no response to the login request is skipped.
LoginWait_SkipUnrelated ==
  /\ At("bg", "login_wait")
  /\ \E m \in Receivable(h["bg"], ResponseMsgs \cup StrayMsgs) :
       LET res == try_login(FALSE, m, req.id)
           skip == m.kind = "msg" /\ m.json /\ DecodeRpcResponse(m).Id # req.id
       IN /\ IF skip THEN UNCHANGED pc ELSE AfterStep(res.ret, "sub_send")
          /\ hist' = [hist EXCEPT ![h["bg"]].login =
                                     IF skip THEN @
                                     ELSE IF res.ret THEN "true" ELSE "false",
                                   ![h["bg"]].loginRx = IF m.kind = "msg" THEN @ + 1 ELSE @]
          /\ BgOut(m, IF skip THEN NoRet ELSE Returned("try_login", res.ret),
                   <<>>, IF skip THEN NoLog ELSE res.log)
          /\ h' = [h EXCEPT !["bg"] = IF skip THEN @ ELSE NilConn]
  /\ UNCHANGED <<first, ws, conn, is_stopping, sock, uuids, req, closeLogs,
                 stopAt, stopClosedRecv>>
  /\ UNCHANGED <<wait, cfg>>

\* The blocked ReadMessage returns and try_login runs to its return.
LoginWait ==
  /\ At("bg", "login_wait")
  /\ \E m \in Receivable(h["bg"], ResponseMsgs \cup StrayMsgs) :
       LET res == try_login(FALSE, m, req.id)
       IN /\ AfterStep(res.ret, "sub_send")
          /\ hist' = [hist EXCEPT ![h["bg"]].login = IF res.ret THEN "true" ELSE "false",
                                   ![h["bg"]].loginRx = IF m.kind = "msg" THEN @ + 1 ELSE @]
          /\ BgOut(m, Returned("try_login", res.ret), <<>>, res.log)
  /\ h' = [h EXCEPT !["bg"] = NilConn]
  /\ UNCHANGED <<first, ws, conn, is_stopping, sock, uuids, req, closeLogs,
                 stopAt, stopClosedRecv>>
  /\ UNCHANGED <<wait, cfg>>

-----------------------------------------------------------------------------
\* try_subscribe_channels

SubscribeSend ==
  /\ At("bg", "sub_send")
  /\ uuids' = uuids + 2
  /\ req' = get_subscribe_channels_request(uuids)
  /\ IF conn = NilConn
       THEN NilDeref("bg") /\ BgOut(NoRx, NoRet, <<>>, NoLog)
       ELSE \E e \in SendErrs(conn) :
              LET res == try_subscribe_channels(e, NoRx, get_subscribe_channels_request(uuids))
              IN /\ IF e
                      THEN /\ AfterStep(res.ret, "st_recv")
                           /\ hist' = [hist EXCEPT ![conn].subTx = @ + 1,
                                                    ![conn].sub =
                                                      IF res.ret THEN "true" ELSE "false"]
                           /\ BgOut(NoRx, Returned("try_subscribe_channels", res.ret),
                                    <<>>, res.log)
                      ELSE /\ Goto("bg", "sub_recv")
                           /\ hist' = [hist EXCEPT ![conn].subTx = @ + 1,
                                                    ![conn].subSent = TRUE]
                           /\ BgOut(NoRx, NoRet, <<>>, NoLog)
                 /\ UNCHANGED <<first, ws, conn, is_stopping, sock, h, closeLogs,
                                stopAt, stopClosedRecv>>
  /\ UNCHANGED <<wait, cfg>>

SubscribeRecv == BeginRecv("sub_recv", "sub_wait")

\* The blocked ReadMessage returns and try_subscribe_channels runs to its return.
SubscribeWait ==
  /\ At("bg", "sub_wait")
  /\ \E m \in Receivable(h["bg"], ResponseMsgs \cup StrayMsgs) :
       LET res == try_subscribe_channels(FALSE, m, req)
       IN /\ AfterStep(res.ret, "st_recv")
          /\ hist' = [hist EXCEPT ![h["bg"]].sub = IF res.ret THEN "true" ELSE "false",
                                   ![h["bg"]].subRx = IF m.kind = "msg" THEN @ + 1 ELSE @]
          /\ BgOut(m, Returned("try_subscribe_channels", res.ret), <<>>, res.log)
  /\ h' = [h EXCEPT !["bg"] = NilConn]
  /\ UNCHANGED <<first, ws, conn, is_stopping, sock, uuids, req, closeLogs,
                 stopAt, stopClosedRecv>>
  /\ UNCHANGED <<wait, cfg>>

-----------------------------------------------------------------------------
\* try_handel_msgs_forever

\* The top of the for loop: f.conn.ReadMessage() is called.
StreamRecv ==
  /\ At("bg", "st_recv")
  /\ hist' = [hist EXCEPT ![ws].stream = TRUE]
  /\ IF conn = NilConn
       THEN /\ Goto("bg", "crashed")
            /\ UNCHANGED h
       ELSE /\ h' = [h EXCEPT !["bg"] = conn]
            /\ Goto("bg", "st_wait")
  /\ BgOut(NoRx, NoRet, <<>>, NoLog)
  /\ UNCHANGED <<first, ws, conn, is_stopping, sock, uuids, req, closeLogs,
                 stopAt, stopClosedRecv>>
  /\ UNCHANGED <<wait, cfg>>

\* What the peer may send on a subscribed session: push events, and frames
\* that are no push events.
StreamMsgs == PushMsgs \cup {BadJson, ResponseMsg(req.id, "null")}

\* The streaming loop returning on a frame that does not decode.
StreamWait_ReturnOnBadJson ==
  /\ At("bg", "st_wait")
  /\ \E m \in Receivable(h["bg"], StreamMsgs) :
       IF m.kind = "err"
         THEN /\ Goto("bg", "top")
              /\ BgOut(m, Returned("try_handel_msgs_forever", FALSE), <<>>,
                       ReadErrorLog(is_stopping))
         ELSE /\ Goto("bg", IF m.json THEN "st_recv" ELSE "top")
              /\ BgOut(m, NoRet, HandleMsg(m).emit, HandleMsg(m).log)
  /\ hist' = [hist EXCEPT ![h["bg"]].bad = @ \/ (rx'.kind = "msg" /\ ~rx'.json)]
  /\ h' = [h EXCEPT !["bg"] = NilConn]
  /\ UNCHANGED <<first, ws, conn, is_stopping, sock, uuids, req, closeLogs,
                 stopAt, stopClosedRecv>>
  /\ UNCHANGED <<wait, cfg>>

\* The blocked ReadMessage returns: on an error the function returns, on a
\* message the loop body runs and the loop goes round.
StreamWait ==
  /\ At("bg", "st_wait")
  /\ \E m \in Receivable(h["bg"], StreamMsgs) :
       IF m.kind = "err"
         THEN /\ Goto("bg", "top")
              /\ BgOut(m, Returned("try_handel_msgs_forever", FALSE), <<>>,
                       ReadErrorLog(is_stopping))
         ELSE /\ Goto("bg", "st_recv")
              /\ BgOut(m, NoRet, HandleMsg(m).emit, HandleMsg(m).log)
  /\ hist' = [hist EXCEPT ![h["bg"]].bad = @ \/ (rx'.kind = "msg" /\ ~rx'.json)]
  /\ h' = [h EXCEPT !["bg"] = NilConn]
  /\ UNCHANGED <<first, ws, conn, is_stopping, sock, uuids, req, closeLogs,
                 stopAt, stopClosedRecv>>
  /\ UNCHANGED <<wait, cfg>>

-----------------------------------------------------------------------------

Next ==
  \/ Start
  \/ Gather
  \/ Stop
  \/ \E t \in Threads : CleanupCheck(t)
  \/ \E t \in Threads : CleanupClose(t)
  \/ \E t \in Threads : CleanupClear(t)
  \/ LoopTop
  \/ CheckStopping
  \/ Sleep
  \/ DialFail
  \/ DialOk
  \/ StoreConn
  \/ LoginSend
  \/ LoginRecv
  \/ LoginWait
  \/ SubscribeSend
  \/ SubscribeRecv
  \/ SubscribeWait
  \/ StreamRecv
  \/ StreamWait

Spec == Init /\ [][Next]_vars

\* The steps of connect between a failed step and the next Dial: none of them
\* blocks on the peer, the goroutine is scheduled and time.Sleep returns.
Retry ==
  \/ LoopTop
  \/ CleanupCheck("bg")
  \/ CleanupClose("bg")
  \/ CleanupClear("bg")
  \/ CheckStopping
  \/ Sleep

LiveSpec == Spec /\ WF_vars(Retry)

-----------------------------------------------------------------------------
\* Properties

Open == {s \in Sockets : sock[s] = "open"}

ReadError == Entry("info", "read error: ")

NoMeasurementData == Entry("warn", "No measurement data!!!")

\* The last step of the background loop was an iteration of the streaming
\* loop's body on the message rx.
Handled == rx.kind = "msg" /\ ret = NoRet

NonNullKeys(p) == {k \in DOMAIN p : p[k] # "null"}

\* C1: Stop() is safe at every point of the background loop: in no
\* interleaving of Stop() with connect() is a send, receive or close performed
\* through a nil connection handle; neither goroutine panics.
C1_NeverNilDeref == \A t \in Threads : pc[t] # "crashed"

\* C2: if Stop() sets the shutdown flag while the supervisor sleeps the
\* backoff delay, the supervisor terminates when the delay ends: it does not
\* go on to dial.
C2_StopInSleepTerminates == stopAt = "sleep" => pc["bg"] \in {"sleep", "done"}

\* C3: if Stop() closes the socket while the background loop is blocked in a
\* receive on it (login, subscribe or streaming), the receive fails, the step
\* returns, and the supervisor runs cleanup, reads the flag and terminates:
\* it neither sleeps, nor dials, nor sends again, nor panics, and the
\* streaming loop does not log the failure as a read error.
C3_StopUnblocksAndTerminates ==
  stopClosedRecv =>
    /\ pc["bg"] \in RecvWaits \cup {"top", "cl_check", "cl_close", "cl_clear", "flag", "done"}
    /\ pc["bg"] \in RecvWaits => sock[h["bg"]] = "closed"
    /\ ~BagIn(ReadError, log["bg"])

\* C4: within one attempt the steps are strictly ordered.  A subscribe request
\* is sent on a session only after try_login returned true on it, and the
\* streaming loop is entered only after try_subscribe_channels returned true
\* on it.  After try_login returned false on a session no subscribe request
\* is sent on it, the session is closed before the loop waits, and Dial is
\* entered again only from the backoff sleep.
C4_Ordered ==
  /\ \A s \in Sockets :
       /\ hist[s].subSent => hist[s].login = "true"
       /\ hist[s].sub # "none" => hist[s].login = "true"
       /\ hist[s].stream => hist[s].sub = "true"
       /\ hist[s].login = "false" =>
            /\ ~hist[s].subSent
            /\ pc["bg"] \in {"sleep", "dial", "store"} => sock[s] = "closed"
  /\ pc["bg"] \in {"sub_send", "sub_recv", "sub_wait"} => hist[ws].login = "true"
  /\ pc["bg"] \in {"st_recv", "st_wait"} => hist[ws].sub = "true"

C4_DialOnlyAfterSleep ==
  (pc'["bg"] = "dial" /\ pc["bg"] # "dial") =>
     \/ pc["bg"] = "sleep"
     \/ pc["bg"] = "top" /\ ws = NilConn /\ Unopened = Sockets

C4_StepsOrdered == []C4_Ordered /\ [][C4_DialOnlyAfterSleep]_vars

\* C4 witness: try_login returned false on session 1, which is closed, and
\* the loop has slept and dialed session 2, on which login and subscription
\* succeeded and the streaming loop runs.
C4_Witness ==
  /\ hist[1].login = "false" /\ ~hist[1].subSent /\ sock[1] = "closed"
  /\ hist[2].login = "true" /\ hist[2].sub = "true" /\ hist[2].stream
  /\ pc["bg"] = "st_wait"

\* C5: try_login returns true iff the request was sent, a message was
\* received, it decoded as a response whose id equals the id of the login
\* request just sent, and its error field is null.  In every other case
\* (send failure, receive failure, a body that is not JSON, another id, an
\* error object) it returns false and the loop continues.
C5_LoginTrueIff ==
  ret.fn = "try_login" =>
    /\ ret.val <=> /\ hist[ws].loginSent
                   /\ rx.kind = "msg"
                   /\ rx.json
                   /\ rx.id = req.id
                   /\ rx.error \in {"null", "absent"}
    /\ ~ret.val => pc["bg"] = "top"
    /\ ret.val => pc["bg"] = "sub_send"

\* C5 witness: login returned true on the matching response.
C5_Witness ==
  /\ ret = Returned("try_login", TRUE)
  /\ rx = ResponseMsg(req.id, "null")
  /\ req.id > EmptyId

\* C5 witness of a rejection: a well-formed response without error whose id
\* is not the request's.
C5_WitnessMismatch ==
  /\ ret = Returned("try_login", FALSE)
  /\ rx.json /\ rx.error = "null" /\ rx.id > EmptyId /\ rx.id # req.id

\* C6: try_subscribe_channels returns true iff the received response carries
\* the id of the outer edgeRpc envelope and a null error.  A response with any
\* other id is rejected: the empty string, the id of the inner
\* subscribeChannels request, the id of the login exchange of the session.
C6_SubscribeOuterId ==
  ret.fn = "try_subscribe_channels" =>
    /\ ret.val <=> /\ hist[ws].subSent
                   /\ rx.kind = "msg"
                   /\ rx.json
                   /\ rx.id = req.id
                   /\ rx.error \in {"null", "absent"}
    /\ req.inner # req.id /\ hist[ws].loginId # req.id /\ req.id # EmptyId
    /\ (rx.kind = "msg" /\ rx.id \in {AbsentId, EmptyId, req.inner, hist[ws].loginId})
         => ~ret.val

\* C6 witness: a well-formed response without error that echoes the id of
\* the inner subscribeChannels request was rejected.
C6_Witness ==
  /\ ret = Returned("try_subscribe_channels", FALSE)
  /\ rx = ResponseMsg(req.inner, "null")
  /\ req.inner > EmptyId

\* C6 witness of the other ids: the login id of the session was rejected.
C6_WitnessLoginId ==
  /\ ret = Returned("try_subscribe_channels", FALSE)
  /\ rx = ResponseMsg(hist[ws].loginId, "null")
  /\ hist[ws].loginId > EmptyId

\* C6 witness of acceptance: the outer id was accepted.
C6_WitnessAccepted ==
  /\ ret = Returned("try_subscribe_channels", TRUE)
  /\ rx = ResponseMsg(req.id, "null")

\* C7: for every decoded push event whose channel mapping has a non-null
\* entry, the streaming loop calls AddFields("fems", m) exactly once, m being
\* the mapping with exactly the null entries removed: 0, false and "" are
\* kept and every kept value is the decoded value of the event.
C7_EmitNonNull ==
  (Handled /\ rx.json /\ rx.hasParams /\ NonNullKeys(rx.params) # {}) =>
    /\ Len(emit) = 1
    /\ emit[1].name = "fems"
    /\ DOMAIN emit[1].fields = NonNullKeys(rx.params)
    /\ \A k \in NonNullKeys(rx.params) : emit[1].fields[k] = JsonToGo(rx.params[k])
    /\ \A k \in DOMAIN rx.params :
         rx.params[k] \in {"0", "false", "\"\""} => k \in DOMAIN emit[1].fields

\* C7 witness: the event {ch1: 0, ch2: null} was emitted as {ch1: 0}.
C7_Witness ==
  /\ Handled
  /\ rx = PushMsg([k \in Channels |-> IF k = "ch1" THEN "0" ELSE "null"])
  /\ emit = <<AddFields("fems", [k \in {"ch1"} |-> "float64(0)"])>>

\* C8: an empty batch is never emitted.  For a received event whose channel
\* mapping is empty, absent or all null, AddFields is not called, the "no
\* measurement data" warning is logged once, and the loop goes on to the next
\* receive on the same session.
C8_NoEmptyBatch ==
  /\ \A i \in DOMAIN emit : DOMAIN emit[i].fields # {}
  /\ (Handled /\ rx.json /\ (rx.hasParams => NonNullKeys(rx.params) = {})) =>
       /\ emit = <<>>
       /\ CopiesIn(NoMeasurementData, log["bg"]) = 1
       /\ pc["bg"] = "st_recv"

\* C8 witness: an event whose two channels are null was dropped with the warning.
C8_Witness ==
  /\ Handled
  /\ rx = PushMsg([k \in Channels |-> "null"])
  /\ emit = <<>>
  /\ BagIn(NoMeasurementData, log["bg"])

\* C8 witness of the absent mapping.
C8_WitnessAbsent ==
  /\ Handled /\ rx = NoParamsMsg /\ emit = <<>>
  /\ BagIn(NoMeasurementData, log["bg"])

\* C9: at most one socket opened by the client is open at a time; whenever
\* the loop is in Dial every socket opened before is closed and f.conn is nil.
C9_OneOpenSocket ==
  /\ Cardinality(Open) <= 1
  /\ pc["bg"] = "dial" => (Open = {} /\ conn = NilConn)

\* C9 witness: a second session has been dialed; it is open and the first
\* is closed.
C9_Witness == sock[1] = "closed" /\ sock[2] = "open" /\ conn = 2

\* C10: cleanup on a nil handle changes nothing and logs nothing, and each
\* opened session gets exactly one "connection closed" entry, at its first
\* real close, whether the loop, Stop() or both call cleanup.
C10_OneCloseLogPerSession ==
  \A s \in Sockets :
    /\ closeLogs[s] <= 1
    /\ closeLogs[s] = 1 => sock[s] = "closed"

\* A step of the background loop failed: Dial, try_login,
\* try_subscribe_channels or the read of try_handel_msgs_forever.
StepFailed == ret.fn # "" /\ ~ret.val

\* C11: while the shutdown flag is not set, every failure of dial, login,
\* subscription or the streaming receive is eventually followed by the cleanup
\* of the session and a new Dial; nothing counts or caps the attempts.
C11_FailureLeadsToRedial ==
  (StepFailed /\ ~is_stopping)
    ~> (is_stopping \/ (pc["bg"] = "dial" /\ conn = NilConn /\ Open = {}))

\* C11 witness: the first session failed at login, the flag is not set and
\* the loop is in Dial again with the session closed.
C11_Witness ==
  /\ hist[1].login = "false" /\ sock[1] = "closed"
  /\ pc["bg"] = "dial" /\ conn = NilConn /\ ~is_stopping

\* connect has ended: it returned, it panicked, or the process died with the
\* caller's panic.
LoopEnded == pc["bg"] \in {"done", "crashed"} \/ ~Alive

\* C12: whenever the background loop has ended (returned or crashed) the
\* shutdown flag is set; the flag is never cleared, so it was set before the
\* loop ended.  No dial, send, receive, decode or data failure ends the loop
\* while the flag is unset.
C12_EndedOnlyWhenStopping ==
  /\ LoopEnded => is_stopping
  /\ (StepFailed /\ ~is_stopping) => pc["bg"] = "top"

\* The loop returned after a failed login on the first session.
C12_Witness == pc["bg"] = "done" /\ hist[1].login = "false" /\ is_stopping

\* A failed login with the flag unset: the loop is back at its top.
C12_WitnessFailure ==
  ret = Returned("try_login", FALSE) /\ ~is_stopping /\ pc["bg"] = "top"

\* The positions of connect inside its call of cleanup.
BgCleanup == {"cl_check", "cl_close", "cl_clear"}

\* Before the first Dial nothing of the retry path has run.
C13_FirstAttempt ==
  first => /\ pc["bg"] \in {"idle", "top"}
           /\ wait = 0
           /\ Unopened = Sockets

\* The wait in progress is the fixed one.
C13_FixedWait == pc["bg"] = "sleep" => wait = BackoffSeconds /\ ~first

\* How connect moves between the loop head, cleanup, the flag check, the
\* wait and Dial.
C13_Order ==
  /\ (pc["bg"] = "top" /\ pc'["bg"] # "top") =>
        pc'["bg"] = (IF first THEN "dial" ELSE "cl_check") \/ ~Alive'
  /\ (pc["bg"] # "cl_check" /\ pc'["bg"] = "cl_check") => pc["bg"] = "top"
  /\ (pc["bg"] # "flag" /\ pc'["bg"] = "flag") => pc["bg"] \in BgCleanup
  /\ (pc["bg"] = "flag" /\ pc'["bg"] # "flag") =>
        pc'["bg"] = (IF is_stopping THEN "done" ELSE "sleep") \/ ~Alive'
  /\ (pc["bg"] # "sleep" /\ pc'["bg"] = "sleep") =>
        pc["bg"] = "flag" /\ wait' = BackoffSeconds
  /\ (pc["bg"] = "sleep" /\ pc'["bg"] # "sleep") => pc'["bg"] = "dial"
  /\ (pc["bg"] # "dial" /\ pc'["bg"] = "dial") =>
        \/ pc["bg"] = "top" /\ first /\ wait = 0
        \/ pc["bg"] = "sleep" /\ wait = BackoffSeconds

\* C13: the first attempt dials with no prior wait, cleanup or flag check;
\* every later attempt runs cleanup, then the shutdown-flag check, then one
\* wait of 10 seconds, and only then Dial.  The wait is the same constant on
\* every retry, however many attempts have failed.
C13_BackoffOrdering ==
  [](C13_FirstAttempt /\ C13_FixedWait) /\ [][C13_Order]_vars

\* C13 witness: the second retry, after two failed sessions, waits the same
\* 10 seconds.
C13_Witness ==
  /\ hist[1].login = "false" /\ hist[2].login = "false"
  /\ sock[1] = "closed" /\ sock[2] = "closed"
  /\ pc["bg"] = "sleep" /\ wait = BackoffSeconds

\* The two entries logged for a frame that does not decode.
ParseErrorLog ==
  One(Entry("info", "could not parse received data:"))
  (+) One(Entry("info", "data was:"))

\* The streaming loop has just handled a frame that did not decode.
C14_Skipped ==
  (Handled /\ ~rx.json) =>
    /\ emit = <<>>
    /\ log["bg"] = ParseErrorLog
    /\ pc["bg"] = "st_recv"
    /\ hist[ws].bad

\* A push event with data handled on a session that had a malformed frame
\* before is emitted.
C14_LaterEmitted ==
  (Handled /\ hist[ws].bad /\ rx.hasParams /\ NonNullKeys(rx.params) # {}) =>
    emit = <<AddFields("fems", DeleteNil(DecodePushParams(rx)))>>

\* The step that handles the malformed frame leaves the session as it is.
C14_SessionKept ==
  (pc["bg"] = "st_wait" /\ rx'.kind = "msg" /\ ~rx'.json /\ ret' = NoRet) =>
    /\ sock' = sock /\ conn' = conn /\ ws' = ws
    /\ pc'["bg"] = "st_recv"

\* C14: a received message that fails to decode in the streaming loop is
\* logged, nothing is emitted for it, the session stays open and the loop
\* goes on to the next receive; a valid push event arriving later on the same
\* session is still emitted.
C14_MalformedPushSkipped ==
  [](C14_Skipped /\ C14_LaterEmitted) /\ [][C14_SessionKept]_vars

\* C14 witness: session 1 had a malformed frame, is still open, and a later
\* push event on it was emitted.
C14_Witness ==
  /\ hist[1].bad /\ ws = 1 /\ sock[1] = "open" /\ conn = 1
  /\ Handled /\ rx = PushMsg([k \in Channels |-> "42"])
  /\ emit = <<AddFields("fems", [k \in Channels |-> "float64(42)"])>>

\* The number of entries above trace level the last step of connect wrote.
Logged ==
  LET b == log["bg"]
  IN BagCardinality([e \in {x \in BagToSet(b) : x.lvl # "trace"} |-> b[e]])

\* The last step of connect ended in a failure: a step function failed, or
\* the streaming loop met a frame that does not decode.
Failure == StepFailed \/ (Handled /\ ~rx.json)

\* The failure is a body that does not decode.
Undecodable == rx.kind = "msg" /\ ~rx.json

StreamReadFailed == ret = Returned("try_handel_msgs_forever", FALSE)

\* C15 as stated: every failure (dial, send, receive, undecodable body, id
\* mismatch, server error field; in login, subscription and streaming) writes
\* exactly one log entry, never zero and never more.
C15_ExactlyOneEntry == Failure => Logged = 1

\* The entries per kind of failure.
C15_Counts ==
  Failure =>
    /\ Undecodable => Logged = 2 /\ BagIn(Entry("info", "data was:"), log["bg"])
    /\ (~Undecodable /\ ~StreamReadFailed) => Logged = 1
    /\ StreamReadFailed => Logged <= 1

\* The receive failure of the streaming loop is logged iff the flag is unset
\* when the failure is handled.
C15_StreamRead ==
  (pc["bg"] = "st_wait" /\ StreamReadFailed') =>
    Logged' = (IF is_stopping THEN 0 ELSE 1)

\* C15, amended: a dial, send or receive failure, an id mismatch and a server
\* error field write exactly one entry above trace level; a body that does
\* not decode writes two (the parse error and the raw data); the receive
\* failure of the streaming loop writes one entry when the shutdown flag is
\* unset and none when it is set.
C15_EntriesPerFailure == []C15_Counts /\ [][C15_StreamRead]_vars

\* C15 witness: the streaming read failed after Stop() set the flag and
\* nothing was logged.
C15_Witness ==
  StreamReadFailed /\ rx = RxErr /\ is_stopping /\ log["bg"] = NoLog

\* C15 witness: a login response that does not decode wrote two entries.
C15_WitnessTwo ==
  ret = Returned("try_login", FALSE) /\ rx = BadJson /\ Logged = 2

\* C15 witness: an id mismatch in the subscribe exchange wrote one entry.
C15_WitnessOne ==
  /\ ret = Returned("try_subscribe_channels", FALSE)
  /\ rx.json /\ rx.id # req.id /\ Logged = 1

\* The last step of the caller was a call of Gather.
Gathered == pc["caller"] = "started" /\ log["caller"] = NoLog

\* AddFields is called by the streaming loop alone, on a session whose login
\* and subscription succeeded; the exchanges forward nothing.
C16_FromStreamOnly ==
  /\ emit # <<>> =>
       /\ Handled /\ rx.json
       /\ pc["bg"] = "st_recv" \/ ~Alive
       /\ hist[ws].login = "true" /\ hist[ws].sub = "true" /\ hist[ws].stream
  /\ ret.fn \in {"Dial", "try_login", "try_subscribe_channels"} => emit = <<>>

\* A call of Gather leaves the plugin's state and the sink alone.
C16_GatherNoOp ==
  (pc["caller"] = "started" /\ pc'["caller"] = "started"
     /\ log'["caller"] # log["caller"]) =>
    UNCHANGED <<first, ws, conn, is_stopping, sock, h, uuids, req, rx, ret,
                emit, closeLogs, hist, wait, cfg>>

\* C16: emission is push-driven only.  AddFields is called only by the
\* streaming loop, so only after login and channel subscription succeeded on
\* the current session; Gather never calls the sink and changes no state; no
\* message received during the login or subscribe exchange reaches the sink.
C16_PushDrivenOnly == []C16_FromStreamOnly /\ [][C16_GatherNoOp]_vars

\* C16 witness: Gather was called, and the record in the sink comes from a
\* push event handled by the streaming loop.
C16_Witness ==
  /\ Gathered
  /\ emit = <<AddFields("fems", [k \in Channels |-> "float64(42)"])>>
  /\ Handled /\ hist[ws].sub = "true"

\* C16 witness: a push event consumed by the subscribe exchange went nowhere.
C16_WitnessExchange ==
  /\ ret = Returned("try_subscribe_channels", FALSE)
  /\ rx = PushMsg([k \in Channels |-> "42"])
  /\ emit = <<>>

\* Init() has been called on the configuration.
InitReturned == cfg.err # "not called"

\* C17: Init returns an error when the endpoint is empty or the channel list
\* is empty and nil otherwise; an absent password becomes "owner", a
\* configured one is left as it is; the endpoint and the channel list are not
\* changed.  Init itself opens no connection and starts nothing.
C17_InitValidates ==
  InitReturned =>
    /\ cfg.err # "nil" <=> (cfg.given.URL = "" \/ cfg.given.Channels = <<>>)
    /\ cfg.err \in {"nil", "FEMS URL missing", "No FEMS channels configured"}
    /\ cfg.Password = (IF cfg.given.Password = "" THEN "owner"
                       ELSE cfg.given.Password)
    /\ cfg.URL = cfg.given.URL /\ cfg.Channels = cfg.given.Channels
    /\ Unopened = Sockets /\ pc["bg"] = "idle" /\ conn = NilConn

\* C17 witness: a valid configuration without password was accepted with the
\* password "owner".
C17_Witness ==
  /\ cfg.err = "nil" /\ cfg.given.Password = "" /\ cfg.Password = "owner"
  /\ cfg.given.URL # "" /\ cfg.given.Channels # <<>>

\* C17 witness: an endpoint without channels was rejected, a configured
\* password kept.
C17_WitnessRejected ==
  /\ cfg.err = "No FEMS channels configured" /\ cfg.given.URL = "fems:80"
  /\ cfg.given.Password = "secret" /\ cfg.Password = "secret"

\* C18: the session is destroyed on every failure and on shutdown.  Whenever
\* connect is in its backoff wait, and whenever it has returned, every socket
\* the client opened is closed and f.conn is nil: no socket opened by a
\* failed attempt stays open across the wait.
C18_SessionDestroyed ==
  pc["bg"] \in {"sleep", "done"} =>
    /\ Open = {}
    /\ conn = NilConn
    /\ ws # NilConn => sock[ws] = "closed"

\* C18 witness: the loop waits after a subscription failed on session 1,
\* which is closed.
C18_Witness ==
  /\ pc["bg"] = "sleep" /\ hist[1].sub = "false"
  /\ sock[1] = "closed" /\ conn = NilConn /\ closeLogs[1] = 1

\* C18 witness: the loop returned after the stream on session 1 ended.
C18_WitnessTerminated ==
  /\ pc["bg"] = "done" /\ hist[1].stream
  /\ sock[1] = "closed" /\ conn = NilConn

\* The step functions of the two exchanges.
Exchanges == {"try_login", "try_subscribe_channels"}

\* The message the exchange consumed is the response to its request.
IsResponse == rx.json /\ rx.id = req.id

\* C19: one invocation of try_login and of try_subscribe_channels performs
\* one exchange.  On each session at most one login request and one subscribe
\* request are sent and at most one message is consumed by each step, only
\* after its request was sent; there is no loop or retry inside the step.
\* The first message received is taken as the response: when it is an
\* unrelated message, such as a push event, the step returns false at once
\* and the loop continues.
C19_OneExchange ==
  /\ \A s \in Sockets :
       /\ hist[s].loginTx <= 1 /\ hist[s].loginRx <= hist[s].loginTx
       /\ hist[s].subTx <= 1 /\ hist[s].subRx <= hist[s].subTx
       /\ hist[s].loginRx = 1 => hist[s].login # "none"
       /\ hist[s].subRx = 1 => hist[s].sub # "none"
  /\ (ret.fn \in Exchanges /\ rx.kind = "msg" /\ ~IsResponse) =>
       ~ret.val /\ pc["bg"] = "top"
  /\ pc["bg"] \in {"login_recv", "login_wait"} =>
       hist[ws].loginTx = 1 /\ hist[ws].loginRx = 0
  /\ pc["bg"] \in {"sub_recv", "sub_wait"} =>
       hist[ws].subTx = 1 /\ hist[ws].subRx = 0

\* C19 witness: a push event arrived first in the login exchange; it was the
\* one message consumed and try_login returned false.
C19_Witness ==
  /\ ret = Returned("try_login", FALSE)
  /\ rx = PushMsg([k \in Channels |-> "42"])
  /\ hist[ws].loginTx = 1 /\ hist[ws].loginRx = 1
  /\ pc["bg"] = "top"

\* C19 witness: both exchanges ran once on session 1.
C19_WitnessBoth ==
  /\ hist[1].loginTx = 1 /\ hist[1].loginRx = 1
  /\ hist[1].subTx = 1 /\ hist[1].subRx = 1

\* C20: after Stop() has returned the sink receives no further records: no
\* AddFields call is made for a push event received on a session that was
\* opened after Stop() returned.
C20_NoEmitAfterStop == emit # <<>> => ~hist[ws].afterStop

====
